---- MODULE Spec2Model ----
(***************************************************************************)
(* Request-routing supervisor of Attention_CV                              *)
(* (backend/app/services/ai/supervisor.py and its HTTP entry points).      *)
(*                                                                         *)
(* Text is modelled as a sequence of tokens.  A token is one lexical unit  *)
(* of a model reply: one of the literal protocol markers, a lower-case     *)
(* letter "a", an upper-case letter "A", one whitespace character " ",     *)
(* the brackets "[" and "]", or one JSON element of an operations array.   *)
(* Python's str.split / str.strip / str.lower / `in` / re.search are       *)
(* computed on these sequences the way CPython computes them on text.      *)
(***************************************************************************)
EXTENDS Integers, Sequences, FiniteSets, TLC

(***************************************************************************)
(* Bounds of the model.                                                    *)
(***************************************************************************)
MaxRequests == 2
MaxReplyLen == 3
MaxFieldLen == 2
MaxOps == 2
MaxCalls == 3
MaxDocuments == 2
MaxStreams == 2
MaxChunks == 1

(***************************************************************************)
(* Tokens                                                                  *)
(***************************************************************************)
EXPLANATION == "EXPLANATION:"
CODE == "CODE:"
FILENAME == "FILENAME:"
LANGUAGE == "LANGUAGE:"
INCREMENTAL_OPERATIONS == "INCREMENTAL_OPERATIONS:"

FullMarkers == {EXPLANATION, CODE, FILENAME, LANGUAGE}
Markers == FullMarkers \cup {INCREMENTAL_OPERATIONS}

WS == " "

\* JSON values that may stand as one element of the operations array.
\* OBJ_REPLACE  {"operation": "replace", "target": "t", "new_content": "n"}
\* OBJ_INSERT   {"operation": "insert", "new_content": "m", "line_start": 1}
\* OBJ_EMPTY    {}
\* OBJ_BADTYPE  {"operation": "replace", "new_content": 5}
\* NUM          1
JsonObjects == {"OBJ_REPLACE", "OBJ_INSERT", "OBJ_EMPTY", "OBJ_BADTYPE"}
JsonElements == JsonObjects \cup {"NUM"}

\* Text that is no JSON at all (a trailing comma, an unquoted word).
JUNK == "JUNK"

PlainTokens == {"a", "A", WS, "[", "]"}
Tokens == Markers \cup PlainTokens \cup JsonElements \cup {JUNK}

\* The value None, kept apart from every text (no text holds this token).
None == <<"<None>">>

(***************************************************************************)
(* Python string operations on token sequences                             *)
(***************************************************************************)
SetMin(S) == CHOOSE x \in S : \A y \in S : x <= y
SetMax(S) == CHOOSE x \in S : \A y \in S : x >= y

\* `tok in s`
Contains(s, tok) == \E i \in 1..Len(s) : s[i] = tok

\* The whitespace characters that occur in the texts of the model.
Whitespace == {WS, "\n"}

\* s.strip()
Strip(s) ==
  LET idx == {i \in 1..Len(s) : s[i] \notin Whitespace}
  IN  IF idx = {} THEN <<>> ELSE SubSeq(s, SetMin(idx), SetMax(idx))

\* s.split(sep): the pieces between all occurrences of sep.
RECURSIVE Split(_, _)
Split(s, sep) ==
  LET idx == {i \in 1..Len(s) : s[i] = sep}
  IN  IF idx = {} THEN <<s>>
      ELSE LET i == SetMin(idx)
           IN  <<SubSeq(s, 1, i - 1)>> \o Split(SubSeq(s, i + 1, Len(s)), sep)

\* s.lower(): an upper-case letter becomes the lower-case letter, and the
\* letters of a marker become lower case, so that it is a marker no more.
LowerTok(t) ==
  CASE t = "A" -> "a"
    [] t = "P" -> "p"
    [] t = "D" -> "d"
    [] t = "F" -> "f"
    [] t = EXPLANATION -> "explanation:"
    [] t = CODE -> "code:"
    [] t = FILENAME -> "filename:"
    [] t = LANGUAGE -> "language:"
    [] t = INCREMENTAL_OPERATIONS -> "incremental_operations:"
    [] t = "OBJ_REPLACE" -> "obj_replace"
    [] t = "OBJ_INSERT" -> "obj_insert"
    [] t = "OBJ_EMPTY" -> "obj_empty"
    [] t = "OBJ_BADTYPE" -> "obj_badtype"
    [] t = "NUM" -> "num"
    [] t = JUNK -> "junk"
    [] OTHER -> t

Lower(s) == [i \in 1..Len(s) |-> LowerTok(s[i])]

\* The sequences over S of length at most n.
RECURSIVE SeqsUpTo(_, _)
SeqsUpTo(S, n) ==
  IF n = 0 THEN {<<>>}
  ELSE LET P == SeqsUpTo(S, n - 1) IN P \cup {Append(q, t) : q \in P, t \in S}

\* Truth value of `x and x.strip()` for an Optional[str] x.
NonBlank(x) == x # None /\ Strip(x) # <<>>

\* `x or dflt` for an Optional[str] x.
OrElse(x, dflt) == IF x = None \/ x = <<>> THEN dflt ELSE x

(***************************************************************************)
(* Code agent: parsing of the model reply (supervisor.py, code_agent)      *)
(***************************************************************************)
\* The value of an absent key of a decoded JSON object.
Absent == "<absent>"

\* The decoded JSON objects (see JsonObjects).
JsonDict(e) ==
  CASE e = "OBJ_REPLACE" ->
         [operation |-> "replace", target |-> "t", old_content |-> Absent,
          new_content |-> "n", line_start |-> Absent, line_end |-> Absent]
    [] e = "OBJ_INSERT" ->
         [operation |-> "insert", target |-> Absent, old_content |-> Absent,
          new_content |-> "m", line_start |-> "1", line_end |-> Absent]
    [] e = "OBJ_BADTYPE" ->
         [operation |-> "replace", target |-> Absent, old_content |-> Absent,
          new_content |-> "5:int", line_start |-> Absent, line_end |-> Absent]
    [] OTHER ->
         [operation |-> Absent, target |-> Absent, old_content |-> Absent,
          new_content |-> Absent, line_start |-> Absent, line_end |-> Absent]

\* op.get(key, default)
DictGet(v, dflt) == IF v = Absent THEN dflt ELSE v

\* CodeOperation(operation=op.get("operation", "replace"), ...)
CodeOperation(e) ==
  [operation   |-> DictGet(JsonDict(e).operation, "replace"),
   target      |-> DictGet(JsonDict(e).target, ""),
   old_content |-> DictGet(JsonDict(e).old_content, "None"),
   new_content |-> DictGet(JsonDict(e).new_content, ""),
   line_start  |-> DictGet(JsonDict(e).line_start, "None"),
   line_end    |-> DictGet(JsonDict(e).line_end, "None")]

\* What building CodeOperation from element e raises ("" when it succeeds):
\* a JSON number has no .get; new_content: str refuses an integer
\* (pydantic's ValidationError is a ValueError).
CoercionError(e) ==
  CASE e = "NUM" -> "AttributeError"
    [] e = "OBJ_BADTYPE" -> "ValueError"
    [] OTHER -> ""

\* incremental_update = None
NoUpdate ==
  [update_type |-> "None", operations |-> <<>>, explanation |-> <<>>,
   estimated_impact |-> "None"]

IncrementalCodeUpdate(ops, expl) ==
  [update_type |-> "incremental", operations |-> ops, explanation |-> expl,
   estimated_impact |-> "medium"]

\* re.search(r'INCREMENTAL_OPERATIONS:\s*(\[.*?\])', s, re.DOTALL).group(1),
\* or <<>> when there is no match: the leftmost marker that is followed,
\* after whitespace only, by "[" and later by some "]"; the group ends at the
\* first "]" (lazy .*?).
AfterSpace(s, i) ==
  SetMin({j \in (i + 1)..(Len(s) + 1) : j = Len(s) + 1 \/ s[j] # WS})

MatchAt(s, i) ==
  /\ s[i] = INCREMENTAL_OPERATIONS
  /\ AfterSpace(s, i) <= Len(s)
  /\ s[AfterSpace(s, i)] = "["
  /\ \E k \in (AfterSpace(s, i) + 1)..Len(s) : s[k] = "]"

operations_match(s) ==
  LET starts == {i \in 1..Len(s) : MatchAt(s, i)}
  IN  IF starts = {} THEN <<>>
      ELSE LET j == AfterSpace(s, SetMin(starts))
               k == SetMin({x \in (j + 1)..Len(s) : s[x] = "]"})
           IN  SubSeq(s, j, k)

\* json.loads(operations_json) raises JSONDecodeError unless every token
\* between the brackets is a JSON value (or whitespace).
JsonDecodes(js) ==
  \A i \in 2..(Len(js) - 1) : js[i] \in JsonElements \cup {WS}

\* json.loads(operations_json): the elements of the array, in order.
json_loads(js) ==
  SelectSeq(SubSeq(js, 2, Len(js) - 1), LAMBDA t : t \in JsonElements)

\* `from ..models.schemas import CodeOperation, IncrementalCodeUpdate` inside
\* app.services.ai.supervisor names the package app.services.models, which
\* the repository does not have (schemas.py is app.models.schemas): the
\* statement raises ImportError.
SchemasImportable == FALSE

\* Lines 437-474: the inner try of the incremental branch.
\*   raised      the exception that leaves the inner try, "" if none does
\*   explanation the explanation as assigned so far
\*   update      incremental_update
IncrementalParse(text) ==
  LET expl ==
        IF Contains(text, EXPLANATION)
        THEN LET explanation_part == Split(text, EXPLANATION)[2]
             IN  IF Contains(explanation_part, INCREMENTAL_OPERATIONS)
                 THEN Strip(Split(explanation_part, INCREMENTAL_OPERATIONS)[1])
                 ELSE <<>>
        ELSE <<>>
      js == operations_match(text)
      data == json_loads(js)
      bad == {i \in 1..Len(data) : CoercionError(data[i]) # ""}
      firstErr == IF bad = {} THEN "" ELSE CoercionError(data[SetMin(bad)])
  IN  CASE js = <<>> ->
             [raised |-> "", explanation |-> expl, update |-> NoUpdate]
        [] js # <<>> /\ ~JsonDecodes(js) ->
             \* except (json.JSONDecodeError, KeyError, ValueError)
             [raised |-> "", explanation |-> expl, update |-> NoUpdate]
        [] js # <<>> /\ JsonDecodes(js) /\ ~SchemasImportable ->
             [raised |-> "ImportError", explanation |-> expl, update |-> NoUpdate]
        [] js # <<>> /\ JsonDecodes(js) /\ SchemasImportable /\ firstErr = "ValueError" ->
             [raised |-> "", explanation |-> expl, update |-> NoUpdate]
        [] js # <<>> /\ JsonDecodes(js) /\ SchemasImportable /\ firstErr = "AttributeError" ->
             [raised |-> "AttributeError", explanation |-> expl, update |-> NoUpdate]
        [] OTHER ->
             [raised |-> "", explanation |-> expl,
              update |-> IncrementalCodeUpdate(
                           [i \in 1..Len(data) |-> CodeOperation(data[i])], expl)]

GenericExplanation == <<"Generated code based on your request">>

\* The CODE: section read without lower-casing the language.
CodeSection_language_as_written(text, filename0, language0) ==
  IF ~Contains(text, CODE)
  THEN [code |-> <<>>, filename |-> filename0, language |-> language0]
  ELSE LET code1 == Strip(Split(text, CODE)[2])
       IN  IF ~Contains(code1, FILENAME)
           THEN [code |-> code1, filename |-> filename0, language |-> language0]
           ELSE LET code_parts == Split(code1, FILENAME)
                    filename_part == Strip(code_parts[2])
                IN  IF ~Contains(filename_part, LANGUAGE)
                    THEN [code |-> Strip(code_parts[1]),
                          filename |-> filename_part, language |-> language0]
                    ELSE LET fl == Split(filename_part, LANGUAGE)
                         IN  [code |-> Strip(code_parts[1]),
                              filename |-> Strip(fl[1]),
                              language |-> Strip(fl[2])]

\* Lines 478-493: code, filename and language out of the CODE: section.
CodeSection(text, filename0, language0) ==
  IF ~Contains(text, CODE)
  THEN [code |-> <<>>, filename |-> filename0, language |-> language0]
  ELSE LET code1 == Strip(Split(text, CODE)[2])
       IN  IF ~Contains(code1, FILENAME)
           THEN [code |-> code1, filename |-> filename0, language |-> language0]
           ELSE LET code_parts == Split(code1, FILENAME)
                    filename_part == Strip(code_parts[2])
                IN  IF ~Contains(filename_part, LANGUAGE)
                    THEN [code |-> Strip(code_parts[1]),
                          filename |-> filename_part, language |-> language0]
                    ELSE LET fl == Split(filename_part, LANGUAGE)
                         IN  [code |-> Strip(code_parts[1]),
                              filename |-> Strip(fl[1]),
                              language |-> Lower(Strip(fl[2]))]

\* Lines 495-500: the explanation, kept as it was when the marker is absent.
ExplanationSection(text, explanation0) ==
  IF ~Contains(text, EXPLANATION) THEN explanation0
  ELSE LET explanation_part == Split(text, EXPLANATION)[2]
       IN  IF Contains(explanation_part, CODE)
           THEN Strip(Split(explanation_part, CODE)[1])
           ELSE Strip(explanation_part)

\* Standard parsing without the fallback of lines 502-505.
StandardParse_no_fallback(text, explanation0, filename0, language0) ==
  LET cs == CodeSection(text, filename0, language0)
  IN  [code |-> cs.code,
       explanation |-> ExplanationSection(text, explanation0),
       filename |-> cs.filename, language |-> cs.language]

\* Lines 476-505: standard parsing for full code generation.
StandardParse(text, explanation0, filename0, language0) ==
  LET cs == CodeSection(text, filename0, language0)
  IN  IF cs.code = <<>>
      THEN [code |-> text, explanation |-> GenericExplanation,
            filename |-> cs.filename, language |-> cs.language]
      ELSE [code |-> cs.code,
            explanation |-> ExplanationSection(text, explanation0),
            filename |-> cs.filename, language |-> cs.language]

\* Lines 425-505: the parts of the reply.  raised is the exception that
\* leaves the block for the handler of line 523 ("" if none).
ParseResponse(response_text, has_existing_code, current_filename, current_language) ==
  LET filename0 == OrElse(current_filename, <<"index.html">>)
      language0 == OrElse(current_language, <<"html">>)
      inc == IF Contains(response_text, INCREMENTAL_OPERATIONS) /\ has_existing_code
             THEN IncrementalParse(response_text)
             ELSE [raised |-> "", explanation |-> <<>>, update |-> NoUpdate]
      std == StandardParse(response_text, inc.explanation, filename0, language0)
  IN  CASE inc.raised # "" ->
             [raised |-> inc.raised, code |-> <<>>, explanation |-> inc.explanation,
              filename |-> filename0, language |-> language0,
              incremental_update |-> NoUpdate]
        [] inc.raised = "" /\ inc.update # NoUpdate ->
             [raised |-> "", code |-> <<>>, explanation |-> inc.explanation,
              filename |-> filename0, language |-> language0,
              incremental_update |-> inc.update]
        [] OTHER ->
             [raised |-> "", code |-> std.code, explanation |-> std.explanation,
              filename |-> std.filename, language |-> std.language,
              incremental_update |-> NoUpdate]

(***************************************************************************)
(* Requests and their collaborators                                        *)
(***************************************************************************)
\* UserConfig values (schemas.py): the provider and which credentials are set.
cfgOpenAI ==
  [aiProvider |-> "openai", azureOpenAIConfig |-> FALSE, openaiApiKey |-> TRUE,
   anthropicApiKey |-> FALSE, sessionId |-> "default"]
cfgAnthropic ==
  [aiProvider |-> "anthropic", azureOpenAIConfig |-> FALSE, openaiApiKey |-> FALSE,
   anthropicApiKey |-> TRUE, sessionId |-> "s2"]
cfgAzure ==
  [aiProvider |-> "azure_openai", azureOpenAIConfig |-> TRUE, openaiApiKey |-> FALSE,
   anthropicApiKey |-> FALSE, sessionId |-> "default"]
cfgNoKey ==
  [aiProvider |-> "openai", azureOpenAIConfig |-> FALSE, openaiApiKey |-> FALSE,
   anthropicApiKey |-> TRUE, sessionId |-> "default"]
Configs == {cfgOpenAI, cfgAnthropic, cfgAzure, cfgNoKey}

\* SupervisorRequest.session_id is Optional: absent, or a session id.
NoSession == "<None>"
RequestSessions == {NoSession, "s1"}

\* Editor context of a request: absent, blank, or some code.
EditorCodes == {None, <<WS>>, <<"a">>}
EditorNames == {[filename |-> None, language |-> None],
                [filename |-> <<"app.js">>, language |-> <<"javascript">>]}

EntryPoints == {"supervisor_routing", "generate_response"}

\* Supervisor._create_llm: the model backend of a config, "ValueError" when
\* the provider has no credentials.
_create_llm(config) ==
  CASE config.aiProvider = "azure_openai" /\ config.azureOpenAIConfig -> "AzureChatOpenAI"
    [] config.aiProvider = "openai" /\ config.openaiApiKey -> "ChatOpenAI"
    [] config.aiProvider = "anthropic" /\ config.anthropicApiKey -> "ChatAnthropic"
    [] OTHER -> "ValueError"

\* str(e) of the exceptions that occur.
InvalidProvider == <<"Invalid AI provider configuration">>
ClassifierDown == <<"classifier unavailable">>
ModelDown == <<"model unavailable">>
RagContextUndefined == <<"name 'rag_context' is not defined">>
BadFormatSpec == <<"Invalid format specifier">>
NoModelsPackage == <<"No module named 'app.services.models'">>
NoGetAttribute == <<"'int' object has no attribute 'get'">>

\* What the classifier (llm.with_structured_output(RequestType)) may answer.
Classifications ==
  {[type |-> t, confidence |-> c, reasoning |-> <<"because">>, raises |-> FALSE] :
     t \in {"chat", "code"}, c \in {50, 90}}
  \cup {[type |-> "chat", confidence |-> 0, reasoning |-> ClassifierDown, raises |-> TRUE]}

NoClassification ==
  [type |-> "none", confidence |-> 0, reasoning |-> <<>>, raises |-> FALSE]

\* Confidence of the fallback classification, in hundredths.
FallbackConfidence == 50

HumanMessage(content) == [role |-> "human", content |-> content]
AIMessage(content) == [role |-> "ai", content |-> content]

NoRequest ==
  [prompt |-> <<>>, config |-> cfgOpenAI, session_id |-> NoSession,
   currentCode |-> None, currentFilename |-> None, currentLanguage |-> None,
   enable_incremental_updates |-> TRUE]

\* The graph state before a request.
NoState ==
  [messages |-> <<>>, request_type |-> "unknown", confidence |-> 0,
   reasoning |-> <<>>, response |-> <<>>, generated_code |-> <<>>,
   filename |-> <<"index.html">>, language |-> <<"html">>,
   incremental_update |-> NoUpdate, session_id |-> "default"]

NoResult ==
  [raised |-> <<>>, request_type |-> "none", confidence |-> 0, reasoning |-> <<>>,
   response |-> <<>>, generated_code |-> <<>>, filename |-> <<>>, language |-> <<>>,
   incremental_update |-> NoUpdate]

NoPayload ==
  [request_type |-> "none", confidence |-> 0, reasoning |-> <<>>, response |-> <<>>,
   generated_code |-> <<>>, filename |-> <<>>, language |-> <<>>,
   incremental_update |-> NoUpdate, success |-> "absent"]

(***************************************************************************)
(* Documents and the RAG context (document_service.py)                     *)
(***************************************************************************)
\* A langchain Document: its text and the source_file of its metadata
\* (None when the metadata has no such key).  The text of a document is a
\* sequence of characters, since create_rag_context measures it with len().
Document(source_file, page_content) ==
  [source_file |-> source_file, page_content |-> page_content]

\* f"\n[Document: {source_file}]\n"
DocumentHeader(source_file) ==
  <<"\n", "[", "D", "o", "c", "u", "m", "e", "n", "t", ":", " ">>
    \o source_file \o <<"]", "\n">>

\* doc.metadata.get('source_file', f'Document {i+1}') for the i-th document
\* (i counted from 1 here).
SourceFile(doc, i) ==
  IF doc.source_file # None THEN doc.source_file
  ELSE <<"D", "o", "c", "u", "m", "e", "n", "t", " ", ToString(i)>>

\* "...[내용 생략]": three dots, a bracket, two Hangul syllables, a space,
\* two Hangul syllables, a bracket; one token per character.
TruncationMarker ==
  <<".", ".", ".", "[", "nae", "yong", " ", "saeng", "ryak", "]">>

\* Line 135: the room left for the truncation message.
TruncationReserve == 50

\* Line 136: the least content worth keeping of a truncated first document.
MinTruncatedContent == 100

\* s[:n] for n >= 0
Prefix(s, n) == SubSeq(s, 1, IF n < Len(s) THEN n ELSE Len(s))

\* sep.join(parts)
RECURSIVE Join(_, _)
Join(parts, sep) ==
  IF parts = <<>> THEN <<>>
  ELSE IF Len(parts) = 1 THEN parts[1]
  ELSE parts[1] \o sep \o Join(Tail(parts), sep)

\* The loop that stops one block early: a block that fills the budget
\* exactly is refused.
RECURSIVE context_parts_strict(_, _, _, _, _)
context_parts_strict(documents, max_length, i, parts, current_length) ==
  IF i > Len(documents) THEN parts
  ELSE LET header == DocumentHeader(SourceFile(documents[i], i))
           doc_content == Strip(documents[i].page_content)
           total_content == header \o doc_content
           remaining_space == max_length - Len(header) - TruncationReserve
       IN  IF current_length + Len(total_content) >= max_length
           THEN IF parts = <<>> /\ remaining_space > MinTruncatedContent
                THEN <<header \o Prefix(doc_content, remaining_space)
                         \o TruncationMarker>>
                ELSE parts
           ELSE context_parts_strict(documents, max_length, i + 1,
                                     Append(parts, total_content),
                                     current_length + Len(total_content))

\* Lines 120-142: the loop over the documents from the i-th on, given the
\* context_parts and the current_length reached so far.
RECURSIVE context_parts(_, _, _, _, _)
context_parts(documents, max_length, i, parts, current_length) ==
  IF i > Len(documents) THEN parts
  ELSE LET header == DocumentHeader(SourceFile(documents[i], i))
           doc_content == Strip(documents[i].page_content)
           total_content == header \o doc_content
           remaining_space == max_length - Len(header) - TruncationReserve
       IN  IF current_length + Len(total_content) > max_length
           THEN IF parts = <<>> /\ remaining_space > MinTruncatedContent
                THEN <<header \o Prefix(doc_content, remaining_space)
                         \o TruncationMarker>>
                ELSE parts
           ELSE context_parts(documents, max_length, i + 1,
                              Append(parts, total_content),
                              current_length + Len(total_content))

\* Lines 114-144: DocumentService.create_rag_context.
create_rag_context(documents, max_length) ==
  IF documents = <<>> THEN <<>>
  ELSE Join(context_parts(documents, max_length, 1, <<>>, 0), <<"\n">>)

\* Lines 27-43: the extensions is_supported_format accepts, compared with
\* the extension of the file name in lower case.
supported_formats == {".pdf", ".docx", ".doc", ".xlsx", ".xls"}

(***************************************************************************)
(* Memory service (memory_service.py)                                      *)
(***************************************************************************)
\* The sessions the callers of the memory service name.
SessionIds == {"default", "s1"}

\* No call of the memory or document service is in progress.
NoCall ==
  [op |-> "none", session_id |-> NoSession, args |-> <<>>, returned |-> None,
   sessions_before |-> {}, messages_before |-> <<>>]

\* clear_session_history that makes the log it does not find.
clear_session_history_creating(h, sid) ==
  [histories |-> [s \in DOMAIN h \cup {sid} |-> IF s = sid THEN <<>> ELSE h[s]],
   returned |-> sid \in DOMAIN h]

\* Lines 26-32: clear_session_history; the logs afterwards and the value
\* returned.
clear_session_history(h, sid) ==
  IF sid \in DOMAIN h
  THEN [histories |-> [h EXCEPT ![sid] = <<>>], returned |-> TRUE]
  ELSE [histories |-> h, returned |-> FALSE]

\* Lines 34-38: get_session_message_count
get_session_message_count(h, sid) ==
  IF sid \in DOMAIN h THEN Len(h[sid]) ELSE 0

\* Lines 92-94: get_session_document_count
get_session_document_count(docs, lists, sid) ==
  IF sid \in DOMAIN docs THEN Len(lists[docs[sid]]) ELSE 0

\* msg.content[:100] + "..." if len(msg.content) > 100 else msg.content
Preview(content) ==
  IF Len(content) > 100 THEN SubSeq(content, 1, 100) \o <<"...">> ELSE content

\* history.messages[-3:]
LastMessages(log) ==
  SubSeq(log, IF Len(log) > 3 THEN Len(log) - 2 ELSE 1, Len(log))

\* Lines 44-64: get_session_summary; the answer for a session without a
\* log (line 47) has no last_messages.
get_session_summary(h, docs, lists, sid) ==
  IF sid \notin DOMAIN h
  THEN [session_id |-> sid, message_count |-> 0, exists |-> FALSE,
        document_count |-> 0]
  ELSE [session_id |-> sid, message_count |-> Len(h[sid]), exists |-> TRUE,
        document_count |-> get_session_document_count(docs, lists, sid),
        last_messages |->
          [i \in 1..Len(LastMessages(h[sid])) |->
             [type |-> LastMessages(h[sid])[i].role,
              content |-> Preview(LastMessages(h[sid])[i].content)]]]

(***************************************************************************)
(* State                                                                   *)
(***************************************************************************)
VARIABLES
  chat_histories,  \* memory_service.chat_histories: session id -> message log
  graph,           \* ai_service.supervisor.graph: "None" or the backend it was built with
  pc,              \* where the request in progress stands
  entry,           \* the entry point that received it
  req,             \* the request
  llm,             \* the backend of the graph that serves it
  state,           \* the graph state (SupervisorState)
  trace,           \* the nodes visited by this traversal, in order
  mode,            \* the branch the code agent took at line 348
  response_text,   \* the reply of the agent's model, None if it raised
  result,          \* what process_request returned, or raised
  payload,         \* what the entry point returned
  history_before,  \* the session's log when the request arrived
  cls,             \* what the classifier answered for it
  caught,          \* times the handler of line 608 ran for it
  served,          \* number of requests received so far
  session_documents, \* memory_service.session_documents: session id -> list object
  doc_lists,       \* the list objects of documents, by identity
  held,            \* the references the get-or-create calls returned
  call,            \* the call of the memory or document service in progress
  calls,           \* number of such calls so far
  streams,         \* the calls of generate_streaming_response, in order of arrival
  context          \* the conversation history each node of this traversal built

vars == <<chat_histories, graph, pc, entry, req, llm, state, trace, mode,
          response_text, result, payload, history_before, cls, caught, served,
          session_documents, doc_lists, held, call, calls, streams, context>>

\* The state of the document store and of its callers, and the streaming
\* calls.
docvars == <<session_documents, doc_lists, held, call, calls, streams>>
memvars == <<docvars, context>>

\* Lines 123, 217 and 316: the messages of the log a node puts into the
\* prompt of its model.
HistoryWindow == 30

\* A window that keeps the oldest messages.
RecentMessages_oldest(log) ==
  IF Len(log) > HistoryWindow THEN SubSeq(log, 1, HistoryWindow) ELSE log

\* messages[-30:] if len(messages) > 30 else messages
RecentMessages(log) ==
  IF Len(log) > HistoryWindow
  THEN SubSeq(log, Len(log) - HistoryWindow + 1, Len(log))
  ELSE log

\* No node has built its history yet.
NoContext == [classifier |-> None, chat_agent |-> None, code_agent |-> None]

\* Line 572 / chat.py 197: the session of a request.
SessionOf(r) ==
  IF r.session_id # NoSession THEN r.session_id
  ELSE IF r.config.sessionId # "" THEN r.config.sessionId
  ELSE "default"

\* memory_service.get_session_history(session_id).messages
Messages(h, sid) == IF sid \in DOMAIN h THEN h[sid] ELSE <<>>

\* get_session_history(session_id) followed by add_message of each of msgs.
AddMessages(h, sid, msgs) ==
  [s \in DOMAIN h \cup {sid} |-> IF s = sid THEN Messages(h, sid) \o msgs ELSE h[s]]

\* get_session_history(session_id) alone: the log is created when missing.
\* get_session_history that makes a new log at every call.
Touch_renewing(h, sid) ==
  [s \in DOMAIN h \cup {sid} |-> IF s = sid THEN <<>> ELSE h[s]]

Touch(h, sid) == AddMessages(h, sid, <<>>)

(***************************************************************************)
(* Supervisor.process_request and the graph it runs                        *)
(***************************************************************************)
\* Lines 575-588: the keys process_request puts into the graph state.
initial_state_keys ==
  {"messages", "request_type", "confidence", "reasoning", "response",
   "generated_code", "filename", "language", "session_id",
   "currentCode", "currentFilename", "currentLanguage"}

initial_state(r) ==
  [messages |-> <<HumanMessage(r.prompt)>>, request_type |-> "unknown",
   confidence |-> 0, reasoning |-> <<>>, response |-> <<>>,
   generated_code |-> <<>>, filename |-> <<"index.html">>,
   language |-> <<"html">>, incremental_update |-> NoUpdate,
   session_id |-> SessionOf(r)]

\* Line 345: state.get("enable_incremental_updates", True).
enable_incremental(r) ==
  IF "enable_incremental_updates" \in initial_state_keys
  THEN r.enable_incremental_updates
  ELSE TRUE

\* Line 346: has_existing_code = current_code and current_code.strip()
has_existing_code(r) ==
  IF "currentCode" \in initial_state_keys THEN NonBlank(r.currentCode) ELSE FALSE

\* Line 348: the branch of the code agent.
CodeAgentMode(r) ==
  IF enable_incremental(r) /\ has_existing_code(r) THEN "incremental" ELSE "full"

\* What building code_prompt raises.  The incremental prompt (lines 350-385)
\* is an f-string whose JSON sample {"operation": ...} is a replacement field
\* with an invalid format specifier; the full prompt (lines 388-418)
\* interpolates rag_context, a name code_agent never binds.
CodePromptError(m) ==
  IF m = "incremental" THEN BadFormatSpec ELSE RagContextUndefined

\* A request arrives at an entry point, which calls process_request: lines
\* 568-588.  supervisor_routing makes a Supervisor of its own (chat.py 206),
\* generate_response uses the one of ai_service (ai_service.py 40, 86).  The
\* graph is built outside the try of line 590, so a ValueError of _create_llm
\* leaves process_request.
Receive(e, r) ==
  LET self_graph == IF e = "generate_response" THEN graph ELSE "None"
      built == IF self_graph = "None" THEN _create_llm(r.config) ELSE self_graph
  IN  /\ pc = "idle"
      /\ served < MaxRequests
      /\ entry' = e
      /\ req' = r
      /\ served' = served + 1
      /\ history_before' = Messages(chat_histories, SessionOf(r))
      /\ trace' = <<>>
      /\ mode' = "none"
      /\ response_text' = None
      /\ payload' = NoPayload
      /\ IF built = "ValueError"
         THEN /\ pc' = "raised"
              /\ result' = [NoResult EXCEPT !.raised = InvalidProvider]
              /\ state' = NoState
              /\ llm' = "None"
              /\ graph' = graph
         ELSE /\ pc' = "supervisor"
              /\ result' = NoResult
              /\ state' = initial_state(r)
              /\ llm' = built
              /\ graph' = IF e = "generate_response" THEN built ELSE graph
      /\ cls' = NoClassification
      /\ caught' = 0
      /\ UNCHANGED chat_histories
      /\ UNCHANGED memvars

ProcessRequest ==
  /\ pc = "idle"
  /\ \E e \in EntryPoints, c \in Configs, sid \in RequestSessions,
        code \in EditorCodes, names \in EditorNames, inc \in BOOLEAN :
       Receive(e, [prompt |-> <<ToString(served + 1)>>, config |-> c,
                   session_id |-> sid, currentCode |-> code,
                   currentFilename |-> names.filename,
                   currentLanguage |-> names.language,
                   enable_incremental_updates |-> inc])

\* A fallback that does not say why the classification failed.
classification_failed_unexplained(st, e) ==
  [st EXCEPT !.request_type = "chat",
             !.confidence = FallbackConfidence,
             !.reasoning = <<"Classification failed">>]

\* Lines 172-182: the classifier raised e; default to chat for safety.
classification_failed(st, e) ==
  [st EXCEPT !.request_type = "chat",
             !.confidence = FallbackConfidence,
             !.reasoning = <<"Classification failed: ">> \o e]

\* A router that sends every request to the chat agent.
goto_chat_only(type) == "chat_agent"

\* Lines 147-170: the node the classification routes to.
goto(type) == IF type = "code" THEN "code_agent" ELSE "chat_agent"

\* Lines 81-182: the classifier node.
supervisor_node ==
  /\ pc = "supervisor"
  /\ trace' = Append(trace, "supervisor")
  /\ chat_histories' = Touch(chat_histories, state.session_id)
  /\ \E cl \in Classifications :
       /\ cls' = cl
       /\ IF cl.raises
          THEN /\ state' = classification_failed(state, cl.reasoning)
               /\ pc' = "chat_agent"
          ELSE /\ state' = [state EXCEPT !.request_type = cl.type,
                                         !.confidence = cl.confidence,
                                         !.reasoning = cl.reasoning]
               /\ pc' = goto(cl.type)
  /\ context' = [context EXCEPT !.classifier =
                   RecentMessages(Messages(chat_histories, state.session_id))]
  /\ UNCHANGED <<graph, entry, req, llm, mode, response_text, result, payload,
                 history_before, caught, served>>
  /\ UNCHANGED docvars

\* Lines 189-284: the chat agent.  The model answers or raises; either way
\* the user message and an assistant message are added to the session log.
ChatReply == <<"hello">>
ChatReplies == {ChatReply}
ChatErrorPrefix == <<"[chat agent error] ">>

\* A chat agent that saves the answer before the user message.
ChatAgentTry_reply_first(reply) ==
  LET answer == IF reply # None THEN reply ELSE ChatErrorPrefix \o ModelDown
  IN  /\ chat_histories' =
           AddMessages(chat_histories, state.session_id,
                       <<AIMessage(answer), HumanMessage(req.prompt)>>)
      /\ state' = [state EXCEPT !.response = answer,
                                !.messages = Append(@, AIMessage(answer))]

\* Lines 258-284 for one outcome of llm.invoke: reply is response.content,
\* or None when the call raises.
ChatAgentTry(reply) ==
  LET answer == IF reply # None THEN reply ELSE ChatErrorPrefix \o ModelDown
  IN  /\ chat_histories' =
           AddMessages(chat_histories, state.session_id,
                       <<HumanMessage(req.prompt), AIMessage(answer)>>)
      /\ state' = [state EXCEPT !.response = answer,
                                !.messages = Append(@, AIMessage(answer))]

chat_agent ==
  /\ pc = "chat_agent"
  /\ trace' = Append(trace, "chat_agent")
  /\ \E reply \in ChatReplies \cup {None} :
       /\ response_text' = reply
       /\ ChatAgentTry(reply)
  /\ pc' = "end"
  /\ context' = [context EXCEPT !.chat_agent =
                   RecentMessages(Messages(chat_histories, state.session_id))]
  /\ UNCHANGED <<graph, entry, req, llm, mode, result, payload,
                 history_before, cls, caught, served>>
  /\ UNCHANGED docvars

\* Lines 291-418: the code agent up to its try.  It chooses its mode and
\* builds the prompt, which raises (CodePromptError) before line 420: the
\* exception leaves the node and graph.invoke.
code_agent ==
  /\ pc = "code_agent"
  /\ trace' = Append(trace, "code_agent")
  /\ chat_histories' = Touch(chat_histories, state.session_id)
  /\ mode' = CodeAgentMode(req)
  /\ result' = [result EXCEPT !.raised = CodePromptError(CodeAgentMode(req))]
  /\ pc' = "except"
  /\ context' = [context EXCEPT !.code_agent =
                   RecentMessages(Messages(chat_histories, state.session_id))]
  /\ UNCHANGED <<graph, entry, req, llm, state, response_text, payload,
                 history_before, cls, caught, served>>
  /\ UNCHANGED docvars

\* Lines 592-606: graph.invoke returned; the structured response.
ProcessRequestReturn ==
  /\ pc = "end"
  /\ result' = [raised |-> <<>>, request_type |-> state.request_type,
                confidence |-> state.confidence, reasoning |-> state.reasoning,
                response |-> state.response,
                generated_code |-> state.generated_code,
                filename |-> state.filename, language |-> state.language,
                incremental_update |-> state.incremental_update]
  /\ pc' = "returned"
  /\ UNCHANGED <<chat_histories, graph, entry, req, llm, state, trace, mode,
                 response_text, payload, history_before, cls, caught, served>>
  /\ UNCHANGED memvars

\* Lines 608-626: graph.invoke raised; the error turn and the error response.
BoundaryErrorPrefix == <<"[error] ">>
ProcessingErrorPrefix == <<"Processing error: ">>
RequestErrorPrefix == <<"[request processing error] ">>

ProcessRequestExcept ==
  /\ pc = "except"
  /\ chat_histories' =
       AddMessages(chat_histories, SessionOf(req),
                   <<HumanMessage(req.prompt),
                     AIMessage(BoundaryErrorPrefix \o result.raised)>>)
  /\ result' = [raised |-> <<>>, request_type |-> "error", confidence |-> 0,
                reasoning |-> ProcessingErrorPrefix \o result.raised,
                response |-> RequestErrorPrefix \o result.raised,
                generated_code |-> <<>>, filename |-> <<"index.html">>,
                language |-> <<"html">>, incremental_update |-> NoUpdate]
  /\ caught' = caught + 1
  /\ pc' = "returned"
  /\ UNCHANGED <<graph, entry, req, llm, state, trace, mode, response_text,
                 payload, history_before, cls, served>>
  /\ UNCHANGED memvars

\* chat.py 211-233 and ai_service.py 88-101: what the entry point returns.
\* supervisor_routing copies seven fields of the result and sets success=True
\* (incremental_update is not copied); when process_request raised it returns
\* the error response with success=False.  generate_response returns the
\* result itself, or an error dictionary.
SupervisorResponse(res) ==
  IF res.raised = <<>>
  THEN [request_type |-> res.request_type, confidence |-> res.confidence,
        reasoning |-> res.reasoning, response |-> res.response,
        generated_code |-> res.generated_code, filename |-> res.filename,
        language |-> res.language, incremental_update |-> NoUpdate,
        success |-> "true"]
  ELSE [request_type |-> "error", confidence |-> 0,
        reasoning |-> ProcessingErrorPrefix \o res.raised,
        response |-> RequestErrorPrefix \o res.raised,
        generated_code |-> <<>>, filename |-> <<"index.html">>,
        language |-> <<"html">>, incremental_update |-> NoUpdate,
        success |-> "false"]

generate_response(res) ==
  IF res.raised = <<>>
  THEN [request_type |-> res.request_type, confidence |-> res.confidence,
        reasoning |-> res.reasoning, response |-> res.response,
        generated_code |-> res.generated_code, filename |-> res.filename,
        language |-> res.language,
        incremental_update |-> res.incremental_update, success |-> "absent"]
  ELSE [request_type |-> "error", confidence |-> 0, reasoning |-> <<>>,
        response |-> RequestErrorPrefix \o res.raised,
        generated_code |-> <<>>, filename |-> <<"index.html">>,
        language |-> <<"html">>, incremental_update |-> NoUpdate,
        success |-> "absent"]

Respond ==
  /\ pc \in {"returned", "raised"}
  /\ payload' = IF entry = "supervisor_routing"
                THEN SupervisorResponse(result)
                ELSE generate_response(result)
  /\ pc' = "done"
  /\ UNCHANGED <<chat_histories, graph, entry, req, llm, state, trace, mode,
                 response_text, result, history_before, cls, caught, served>>
  /\ UNCHANGED memvars

\* The entry point has returned: the request and its locals are gone, the
\* session logs and the graph of ai_service's supervisor stay.
Return ==
  /\ pc \in {"done", "called"}
  /\ pc' = "idle"
  /\ entry' = "none"
  /\ req' = NoRequest
  /\ llm' = "None"
  /\ state' = NoState
  /\ trace' = <<>>
  /\ mode' = "none"
  /\ response_text' = None
  /\ result' = NoResult
  /\ payload' = NoPayload
  /\ history_before' = <<>>
  /\ cls' = NoClassification
  /\ caught' = 0
  /\ call' = NoCall
  /\ context' = NoContext
  /\ UNCHANGED <<chat_histories, graph, served, session_documents, doc_lists,
                 held, calls, streams>>

Init ==
  /\ chat_histories = <<>>
  /\ graph = "None"
  /\ pc = "idle"
  /\ entry = "none"
  /\ req = NoRequest
  /\ llm = "None"
  /\ state = NoState
  /\ trace = <<>>
  /\ mode = "none"
  /\ response_text = None
  /\ result = NoResult
  /\ payload = NoPayload
  /\ history_before = <<>>
  /\ cls = NoClassification
  /\ caught = 0
  /\ served = 0
  /\ session_documents = <<>>
  /\ doc_lists = <<>>
  /\ held = <<>>
  /\ call = NoCall
  /\ calls = 0
  /\ streams = <<>>
  /\ context = NoContext

Next ==
  \/ ProcessRequest
  \/ supervisor_node
  \/ chat_agent
  \/ code_agent
  \/ ProcessRequestReturn
  \/ ProcessRequestExcept
  \/ Respond
  \/ Return

Spec == Init /\ [][Next]_vars

(***************************************************************************)
(* The endpoints of the session memory and the calls of the memory service *)
(***************************************************************************)
\* What belongs to the request in progress.
reqvars == <<graph, entry, req, llm, state, trace, mode, response_text, result,
             payload, history_before, cls, caught, served>>

\* A handler runs from start to end without giving up the event loop (no
\* await between its reads and writes of the store), so a call starts when
\* no request is in progress.
Called(op, sid, args, returned) ==
  /\ pc = "idle"
  /\ calls + served < MaxCalls
  /\ call' = [op |-> op, session_id |-> sid, args |-> args,
              returned |-> returned, sessions_before |-> DOMAIN chat_histories,
              messages_before |-> Messages(chat_histories, sid)]
  /\ calls' = calls + 1
  /\ pc' = "called"
  /\ UNCHANGED reqvars
  /\ UNCHANGED <<streams, context>>

\* chat.py 131-142: DELETE /conversation/{session_id}
clear_conversation ==
  /\ pc = "idle"
  /\ \E sid \in SessionIds :
      /\ Called("clear", sid, <<>>, clear_session_history(chat_histories, sid).returned)
      /\ chat_histories' = clear_session_history(chat_histories, sid).histories
      /\ UNCHANGED <<session_documents, doc_lists, held>>

\* chat.py 117-128: GET /conversation/{session_id}
get_conversation_summary ==
  /\ pc = "idle"
  /\ \E sid \in SessionIds :
      /\ Called("summary", sid, <<>>,
                get_session_summary(chat_histories, session_documents, doc_lists, sid))
      /\ UNCHANGED <<chat_histories, session_documents, doc_lists, held>>

\* chat.py 145-156: GET /sessions (the keys of chat_histories)
list_active_sessions ==
  /\ Called("list", NoSession, <<>>, DOMAIN chat_histories)
  /\ UNCHANGED <<chat_histories, session_documents, doc_lists, held>>

\* memory_service.py 34-38 and 92-94: the two counts of a session.
session_counts ==
  /\ pc = "idle"
  /\ \E sid \in SessionIds :
      /\ Called("count", sid, <<>>,
                [messages |-> get_session_message_count(chat_histories, sid),
                 documents |-> get_session_document_count(session_documents,
                                                          doc_lists, sid)])
      /\ UNCHANGED <<chat_histories, session_documents, doc_lists, held>>

\* memory_service.py 18-24: get_session_history.  The log under a key is
\* made at line 22 when the key is missing and no statement replaces or
\* deletes it, so the object a call returns is named by its key.
get_session_history ==
  /\ pc = "idle"
  /\ \E sid \in SessionIds :
      /\ Called("get_session_history", sid, <<>>, sid)
      /\ chat_histories' = Touch(chat_histories, sid)
      /\ held' = Append(held, [kind |-> "log", session_id |-> sid, ref |-> sid])
      /\ UNCHANGED <<session_documents, doc_lists>>

\* memory_service.py 80-82: get_session_documents returns the list stored
\* under the key, or the default of dict.get: a new empty list that is not
\* stored.
get_session_documents ==
  /\ pc = "idle"
  /\ \E sid \in SessionIds :
      LET stored == sid \in DOMAIN session_documents
          ref == IF stored THEN session_documents[sid] ELSE Len(doc_lists) + 1
      IN  /\ Called("get_session_documents", sid, <<>>, ref)
          /\ doc_lists' = IF stored THEN doc_lists ELSE Append(doc_lists, <<>>)
          /\ held' = Append(held, [kind |-> "documents", session_id |-> sid,
                                   ref |-> ref])
          /\ UNCHANGED <<chat_histories, session_documents>>

\* add_session_documents that keeps the documents of all sessions in the
\* list of the session "default".
add_session_documents_shared(docs, lists, sid, documents) ==
  LET lists1 == IF "default" \in DOMAIN docs THEN lists ELSE Append(lists, <<>>)
      docs1 == [s \in DOMAIN docs \cup {"default"} |->
                  IF s \in DOMAIN docs THEN docs[s] ELSE Len(lists) + 1]
  IN  [session_documents |-> docs1,
       doc_lists |-> [lists1 EXCEPT ![docs1["default"]] = @ \o documents],
       returned |-> TRUE]

\* memory_service.py 66-78: add_session_documents; the store and the list
\* objects afterwards.
add_session_documents(docs, lists, sid, documents) ==
  LET lists1 == IF sid \in DOMAIN docs THEN lists ELSE Append(lists, <<>>)
      docs1 == [s \in DOMAIN docs \cup {sid} |->
                  IF s \in DOMAIN docs THEN docs[s] ELSE Len(lists) + 1]
  IN  [session_documents |-> docs1,
       doc_lists |-> [lists1 EXCEPT ![docs1[sid]] = @ \o documents],
       returned |-> TRUE]

\* memory_service.py 84-90: clear_session_documents deletes the key.
clear_session_documents ==
  /\ pc = "idle"
  /\ \E sid \in SessionIds :
      /\ Called("clear_documents", sid, <<>>, sid \in DOMAIN session_documents)
      /\ session_documents' =
           [s \in DOMAIN session_documents \ {sid} |-> session_documents[s]]
      /\ UNCHANGED <<chat_histories, doc_lists, held>>

\* os.path.splitext(filename.lower())[1]
splitext(filename) ==
  LET dots == {i \in 2..Len(filename) : filename[i] = "."}
  IN  IF dots = {} THEN <<>>
      ELSE Lower(SubSeq(filename, SetMax(dots), Len(filename)))

\* document_service.py 40-43: is_supported_format, the extension spelled
\* out as one string.
ExtensionName(ext) ==
  CASE ext = <<".", "p", "d", "f">> -> ".pdf"
    [] ext = <<".", "d", "o", "c", "x">> -> ".docx"
    [] ext = <<".", "d", "o", "c">> -> ".doc"
    [] ext = <<".", "x", "l", "s", "x">> -> ".xlsx"
    [] ext = <<".", "x", "l", "s">> -> ".xls"
    [] OTHER -> "other"

\* An is_supported_format that accepts every file name.
is_supported_format_any(filename) ==
  TRUE

is_supported_format(filename) ==
  ExtensionName(splitext(filename)) \in supported_formats

\* The files a client uploads, and what the loader of the file's kind reads
\* from one: the texts of its pages, or None when it raises.
Files == {<<"a", ".", "p", "d", "f">>, <<"a", ".", "P", "D", "F">>,
          <<"a", ".", "t", "x", "t">>, <<"p", "d", "f">>}
LoaderPages == {None, <<<<"x">>>>, <<<<"x">>, <<"y">>>>}

\* chat.py 264: the budget of the preview of an upload.
PreviewLength == 500

\* What str(e) is when a loader raises.
LoaderError == <<"file is damaged">>

\* document_service.py 45-77: process_uploaded_file, given what the loader
\* reads from the file.  Both failures are a ValueError; they differ in the
\* message.
process_uploaded_file(filename, pages) ==
  IF ~is_supported_format(filename)
  THEN [raised |-> "ValueError",
        message |-> <<"Unsupported file format: ">> \o filename,
        documents |-> <<>>]
  ELSE IF pages = None
  THEN [raised |-> "ValueError",
        message |-> <<"Failed to process file: ">> \o LoaderError,
        documents |-> <<>>]
  ELSE [raised |-> "none", message |-> <<>>,
        documents |-> [i \in 1..Len(pages) |-> Document(filename, pages[i])]]

\* chat.py 282: the detail of the answer the last handler makes.
InternalUploadError ==
  <<"Internal server error during document processing">>

\* chat.py 236-282: POST /upload-document.  The HTTPException of line 247
\* is raised inside the try block; it is no ValueError, so the handler of
\* line 280 (except Exception) catches it and raises the 500 of line 282.
\* The ValueError of process_uploaded_file goes to the handler of line 276.
upload_document ==
  /\ pc = "idle"
  /\ \E filename \in Files, sid \in SessionIds, pages \in LoaderPages :
      LET processed == process_uploaded_file(filename, pages)
          documents == processed.documents
          added == add_session_documents(session_documents, doc_lists, sid,
                                         documents)
      IN  IF ~is_supported_format(filename)
          THEN /\ Called("upload", sid, filename,
                         [status |-> 500, detail |-> InternalUploadError])
               /\ UNCHANGED <<chat_histories, session_documents, doc_lists, held>>
          ELSE IF processed.raised = "ValueError"
          THEN /\ Called("upload", sid, filename,
                         [status |-> 400, detail |-> processed.message])
               /\ UNCHANGED <<chat_histories, session_documents, doc_lists, held>>
          ELSE /\ Called("upload", sid, filename,
                         [status |-> 200,
                          preview |-> create_rag_context(documents, PreviewLength),
                          document_count |-> Len(documents),
                          total_session_documents |->
                            get_session_document_count(added.session_documents,
                                                       added.doc_lists, sid)])
               /\ session_documents' = added.session_documents
               /\ doc_lists' = added.doc_lists
               /\ UNCHANGED <<chat_histories, held>>

\* A caller of the document service hands it a file (the ingest operation).
ingest ==
  /\ pc = "idle"
  /\ \E filename \in Files, pages \in LoaderPages :
      /\ Called("process_uploaded_file", NoSession, filename,
                process_uploaded_file(filename, pages))
      /\ UNCHANGED <<chat_histories, session_documents, doc_lists, held>>

\* POST /supervisor for the memory checks: a request of a session the
\* memory calls name, with a usable backend and no editor context.
route ==
  \E sid \in RequestSessions :
    /\ pc = "idle"
    /\ calls + served < MaxCalls
    /\ Receive("supervisor_routing",
            [prompt |-> <<ToString(served + Len(streams) + 1)>>, config |-> cfgOpenAI,
             session_id |-> sid, currentCode |-> None,
             currentFilename |-> None, currentLanguage |-> None,
             enable_incremental_updates |-> TRUE])

NextMemory ==
  \/ route
  \/ supervisor_node
  \/ chat_agent
  \/ code_agent
  \/ ProcessRequestReturn
  \/ ProcessRequestExcept
  \/ Respond
  \/ Return
  \/ clear_conversation
  \/ get_conversation_summary
  \/ list_active_sessions
  \/ session_counts
  \/ get_session_history
  \/ get_session_documents
  \/ clear_session_documents
  \/ upload_document
  \/ ingest

MemorySpec == Init /\ [][NextMemory]_vars

(***************************************************************************)
(* UnifiedAIService.generate_streaming_response (ai_service.py 103-138)    *)
(***************************************************************************)
\* ai_service.py 47-78: create_llm, "ValueError" when the provider has no
\* credentials.
create_llm(config) ==
  CASE config.aiProvider = "azure_openai" /\ config.azureOpenAIConfig -> "AzureChatOpenAI"
    [] config.aiProvider = "openai" /\ config.openaiApiKey -> "ChatOpenAI"
    [] config.aiProvider = "anthropic" /\ config.anthropicApiKey -> "ChatAnthropic"
    [] OTHER -> "ValueError"

\* messages[-n:]
LastN(log, n) == SubSeq(log, IF Len(log) > n THEN Len(log) - n + 1 ELSE 1, Len(log))

\* ai_service.py 118: the messages of the log a streaming call sends along.
StreamWindow == 10

\* The number a request is given when it arrives; its prompt spells it.
Arrival == served + Len(streams) + 1

\* The chunks a model streams.
Chunk == <<"c">>

\* Lines 107-126, up to the first await of llm.astream: the call makes its
\* backend, gets the log of getattr(request, 'session_id', 'default') (the
\* attribute exists, so a request without session id names the key None)
\* and builds the messages for the model.  A ValueError of create_llm goes
\* to the handler of line 136, which yields the error text.  process_request
\* runs the graph with the blocking graph.invoke (supervisor.py 592), so a
\* streaming call takes its steps when no routed request is in progress.
stream_start ==
  /\ pc = "idle"
  /\ Len(streams) < MaxStreams
  /\ \E sid \in RequestSessions, c \in {cfgOpenAI, cfgNoKey} :
       LET prompt == <<ToString(Arrival)>>
           failed == create_llm(c) = "ValueError"
       IN  /\ streams' = Append(streams,
                 [session_id |-> sid, prompt |-> prompt,
                  pc |-> IF failed THEN "failed" ELSE "streaming",
                  messages |-> IF failed THEN <<>>
                               ELSE LastN(Messages(chat_histories, sid), StreamWindow)
                                      \o <<HumanMessage(prompt)>>,
                  response |-> <<>>,
                  error |-> IF failed THEN InvalidProvider ELSE <<>>])
           /\ chat_histories' = IF failed THEN chat_histories
                                ELSE Touch(chat_histories, sid)
  /\ UNCHANGED reqvars
  /\ UNCHANGED <<pc, session_documents, doc_lists, held, call, calls, context>>

\* Lines 126-129: one more chunk arrives and is yielded.
stream_chunk ==
  /\ pc = "idle"
  /\ \E i \in 1..Len(streams) :
       /\ streams[i].pc = "streaming"
       /\ Len(streams[i].response) < MaxChunks
       /\ streams' = [streams EXCEPT ![i].response = @ \o Chunk]
  /\ UNCHANGED reqvars
  /\ UNCHANGED <<pc, chat_histories, session_documents, doc_lists, held, call,
                 calls, context>>

\* Lines 133-134: what a streaming call appends to the log.
stream_saved(r) ==
  <<HumanMessage(r.prompt), AIMessage(r.response)>>

\* Lines 131-134: the stream is exhausted and the turn is saved; no await
\* lies between the two add_message calls.
stream_end ==
  /\ pc = "idle"
  /\ \E i \in 1..Len(streams) :
       /\ streams[i].pc = "streaming"
       /\ streams' = [streams EXCEPT ![i].pc = "saved"]
       /\ chat_histories' = AddMessages(chat_histories, streams[i].session_id,
                                        stream_saved(streams[i]))
  /\ UNCHANGED reqvars
  /\ UNCHANGED <<pc, session_documents, doc_lists, held, call, calls, context>>

\* Lines 136-138: llm.astream raises; the error text is yielded and nothing
\* is saved.
stream_fail ==
  /\ pc = "idle"
  /\ \E i \in 1..Len(streams) :
       /\ streams[i].pc = "streaming"
       /\ streams' = [streams EXCEPT ![i].pc = "failed", ![i].error = ModelDown]
  /\ UNCHANGED reqvars
  /\ UNCHANGED <<pc, chat_histories, session_documents, doc_lists, held, call,
                 calls, context>>

\* Routed requests and streaming calls of one process.
NextStream ==
  \/ route
  \/ supervisor_node
  \/ chat_agent
  \/ code_agent
  \/ ProcessRequestReturn
  \/ ProcessRequestExcept
  \/ Respond
  \/ Return
  \/ stream_start
  \/ stream_chunk
  \/ stream_end
  \/ stream_fail

StreamSpec == Init /\ [][NextStream]_vars

(***************************************************************************)
(* Requests of a session with a long history                               *)
(***************************************************************************)
\* The log n/2 earlier turns leave: user message and answer in turn, each
\* with a content of its own.
EarlierTurns(n) ==
  [i \in 1..n |-> IF i % 2 = 1 THEN HumanMessage(<<"turn", ToString(i)>>)
                  ELSE AIMessage(<<"answer", ToString(i)>>)]

\* Lengths of the log on both sides of the window of 30 messages.
HistoryLengths == {0, 2, 28, 30, 32, 34}

InitHistory ==
  /\ \E n \in HistoryLengths :
       chat_histories = IF n = 0 THEN <<>>
                        ELSE [s \in {"s1"} |-> EarlierTurns(n)]
  /\ graph = "None"
  /\ pc = "idle"
  /\ entry = "none"
  /\ req = NoRequest
  /\ llm = "None"
  /\ state = NoState
  /\ trace = <<>>
  /\ mode = "none"
  /\ response_text = None
  /\ result = NoResult
  /\ payload = NoPayload
  /\ history_before = <<>>
  /\ cls = NoClassification
  /\ caught = 0
  /\ served = 0
  /\ session_documents = <<>>
  /\ doc_lists = <<>>
  /\ held = <<>>
  /\ call = NoCall
  /\ calls = 0
  /\ streams = <<>>
  /\ context = NoContext

NextHistory ==
  \/ route
  \/ supervisor_node
  \/ chat_agent
  \/ code_agent
  \/ ProcessRequestReturn
  \/ ProcessRequestExcept
  \/ Respond
  \/ Return

HistorySpec == InitHistory /\ [][NextHistory]_vars

(***************************************************************************)
(* create_rag_context on its own                                           *)
(***************************************************************************)
\* The documents and budgets create_rag_context is applied to.  A content
\* is n letters between p blanks; lengths lie on both sides of the
\* thresholds of lines 132-136.
Letters(n) == [i \in 1..n |-> "x"]
Padded(n, p) == [i \in 1..p |-> WS] \o Letters(n) \o [i \in 1..p |-> WS]
Contents == {Padded(0, 0), Padded(2, 0), Padded(2, 1), Padded(151, 0),
             Padded(170, 0), Padded(170, 1)}
SourceNames == {None, <<"a">>}
Documents == {Document(n, c) : n \in SourceNames, c \in Contents}
MaxLengths == {0, 15, 17, 32, 33, 34, 100, 165, 166, 167, 176, 200}

InitRag ==
  /\ pc = "rag"
  /\ \E documents \in SeqsUpTo(Documents, MaxDocuments), max_length \in MaxLengths :
       call = [op |-> "create_rag_context", session_id |-> NoSession,
               args |-> [documents |-> documents, max_length |-> max_length],
               returned |-> None, sessions_before |-> {},
               messages_before |-> <<>>]
  /\ chat_histories = <<>>
  /\ graph = "None"
  /\ entry = "none"
  /\ req = NoRequest
  /\ llm = "None"
  /\ state = NoState
  /\ trace = <<>>
  /\ mode = "none"
  /\ response_text = None
  /\ result = NoResult
  /\ payload = NoPayload
  /\ history_before = <<>>
  /\ cls = NoClassification
  /\ caught = 0
  /\ served = 0
  /\ session_documents = <<>>
  /\ doc_lists = <<>>
  /\ held = <<>>
  /\ calls = 0
  /\ streams = <<>>
  /\ context = NoContext

\* The call of create_rag_context on the documents and the budget drawn.
build_context ==
  /\ pc = "rag"
  /\ call' = [call EXCEPT !.returned =
                create_rag_context(call.args.documents, call.args.max_length)]
  /\ pc' = "called"
  /\ UNCHANGED <<chat_histories, session_documents, doc_lists, held, calls,
                 streams, context>>
  /\ UNCHANGED reqvars

NextRag ==
  \/ build_context
  \/ Return

RagSpec == InitRag /\ [][NextRag]_vars

(***************************************************************************)
(* The try block of the code agent (lines 420-535), given a reply          *)
(***************************************************************************)
\* Replies of the model: every short token sequence, the replies of the
\* full-generation format, that format with markers left out, and the
\* replies of the incremental format.
ReplyTokens == Markers \cup {"a", WS, "[", "]"}
ShortReplies == SeqsUpTo(ReplyTokens, MaxReplyLen)

FullReply(e, c, f, l) ==
  <<EXPLANATION>> \o e \o <<CODE>> \o c \o <<FILENAME>> \o f \o <<LANGUAGE>> \o l

ExplanationTexts == SeqsUpTo({"a", WS, INCREMENTAL_OPERATIONS, "["}, MaxFieldLen)
CodeTexts == SeqsUpTo({"a", "A", WS, "]"}, MaxFieldLen)
FilenameTexts == {<<>>, <<WS, "a", WS>>}
LanguageTexts == {<<>>, <<WS, "A", "a">>}

FullReplies ==
  {FullReply(e, c, f, l) : e \in ExplanationTexts, c \in CodeTexts,
                           f \in FilenameTexts, l \in LanguageTexts}

Mark(m, present) == IF m \in present THEN <<m>> ELSE <<>>

PartialReplies ==
  {Mark(EXPLANATION, M) \o <<"a">> \o Mark(CODE, M) \o <<"A", WS>>
     \o Mark(FILENAME, M) \o <<"a">> \o Mark(LANGUAGE, M) \o <<"A">> :
   M \in SUBSET FullMarkers}

IncrementalReply(e, sp, ops, close, tail) ==
  <<EXPLANATION>> \o e \o <<INCREMENTAL_OPERATIONS>> \o sp \o <<"[">> \o ops
    \o close \o tail

IncrementalReplies ==
  {IncrementalReply(e, sp, ops, close, tail) :
     e \in {<<>>, <<"a">>}, sp \in {<<>>, <<WS>>},
     ops \in SeqsUpTo(JsonElements \cup {JUNK}, MaxOps),
     close \in {<<>>, <<"]">>}, tail \in {<<>>, <<CODE, "a">>}}

Replies == ShortReplies \cup FullReplies \cup PartialReplies \cup IncrementalReplies

\* str(e) of the exception that left the parsing block.
CauseOf(raised) ==
  CASE raised = "ImportError" -> NoModelsPackage
    [] raised = "AttributeError" -> NoGetAttribute
    [] OTHER -> ModelDown

CodeErrorPrefix == <<"[code generation error] ">>
GeneratedCodeNote == <<"[generated code] ">>
EditorNote(update) ==
  IF update # NoUpdate THEN <<"[code update shown in the editor]">>
  ELSE <<"[generated code shown in the editor]">>

\* A code agent whose handler answers with the error and records nothing.
CodeAgentTry_skip_failed_turn(reply, p) ==
  LET failed == reply = None \/ p.raised # ""
      error_message ==
        CodeErrorPrefix \o (IF reply = None THEN ModelDown ELSE CauseOf(p.raised))
      ai_response ==
        p.explanation \o GeneratedCodeNote \o p.filename \o <<" (">>
          \o p.language \o <<")">>
  IN  IF failed
      THEN /\ chat_histories' = chat_histories
           /\ state' = [state EXCEPT !.response = error_message,
                                     !.messages = Append(@, AIMessage(error_message))]
      ELSE /\ chat_histories' =
                AddMessages(chat_histories, state.session_id,
                            <<HumanMessage(req.prompt), AIMessage(ai_response)>>)
           /\ state' = [state EXCEPT
                          !.response = p.explanation,
                          !.generated_code = p.code,
                          !.filename = p.filename,
                          !.language = p.language,
                          !.incremental_update = p.incremental_update,
                          !.messages = Append(@, AIMessage(p.explanation
                                          \o EditorNote(p.incremental_update)))]

\* A code agent that writes the generated code into its log entry.
CodeAgentTry_logs_code(reply, p) ==
  LET failed == reply = None \/ p.raised # ""
      error_message ==
        CodeErrorPrefix \o (IF reply = None THEN ModelDown ELSE CauseOf(p.raised))
      ai_response ==
        p.explanation \o GeneratedCodeNote \o p.code \o p.filename \o <<" (">>
          \o p.language \o <<")">>
  IN  IF failed
      THEN /\ chat_histories' =
                AddMessages(chat_histories, state.session_id,
                            <<HumanMessage(req.prompt), AIMessage(error_message)>>)
           /\ state' = [state EXCEPT !.response = error_message,
                                     !.messages = Append(@, AIMessage(error_message))]
      ELSE /\ chat_histories' =
                AddMessages(chat_histories, state.session_id,
                            <<HumanMessage(req.prompt), AIMessage(ai_response)>>)
           /\ state' = [state EXCEPT
                          !.response = p.explanation,
                          !.generated_code = p.code,
                          !.filename = p.filename,
                          !.language = p.language,
                          !.incremental_update = p.incremental_update,
                          !.messages = Append(@, AIMessage(p.explanation
                                          \o EditorNote(p.incremental_update)))]

\* Lines 420-535 for one outcome of llm.invoke: reply is the text of the
\* answer, or None when the call raises; p is what lines 425-505 make of it.
CodeAgentTry(reply, p) ==
  LET failed == reply = None \/ p.raised # ""
      error_message ==
        CodeErrorPrefix \o (IF reply = None THEN ModelDown ELSE CauseOf(p.raised))
      ai_response ==
        p.explanation \o GeneratedCodeNote \o p.filename \o <<" (">>
          \o p.language \o <<")">>
  IN  IF failed
      THEN /\ chat_histories' =
                AddMessages(chat_histories, state.session_id,
                            <<HumanMessage(req.prompt), AIMessage(error_message)>>)
           /\ state' = [state EXCEPT !.response = error_message,
                                     !.messages = Append(@, AIMessage(error_message))]
      ELSE /\ chat_histories' =
                AddMessages(chat_histories, state.session_id,
                            <<HumanMessage(req.prompt), AIMessage(ai_response)>>)
           /\ state' = [state EXCEPT
                          !.response = p.explanation,
                          !.generated_code = p.code,
                          !.filename = p.filename,
                          !.language = p.language,
                          !.incremental_update = p.incremental_update,
                          !.messages = Append(@, AIMessage(p.explanation
                                          \o EditorNote(p.incremental_update)))]

code_agent_try ==
  /\ pc = "code_try"
  /\ \E reply \in Replies \cup {None} :
       /\ response_text' = reply
       /\ \E p \in {ParseResponse(reply, has_existing_code(req),
                                  req.currentFilename, req.currentLanguage)} :
            CodeAgentTry(reply, p)
  /\ pc' = "end"
  /\ UNCHANGED <<graph, entry, req, llm, trace, mode, result, payload,
                 history_before, cls, caught, served>>
  /\ UNCHANGED memvars

\* The code agent stands at line 420 with a prompt: the request's editor
\* context is any of the contexts a request can carry.
InitParse ==
  /\ pc = "code_try"
  /\ entry = "generate_response"
  /\ \E code \in EditorCodes, names \in EditorNames :
       req = [prompt |-> <<"1">>, config |-> cfgOpenAI, session_id |-> "s1",
              currentCode |-> code, currentFilename |-> names.filename,
              currentLanguage |-> names.language,
              enable_incremental_updates |-> TRUE]
  /\ state = [initial_state(req) EXCEPT !.request_type = "code",
                                        !.confidence = 90,
                                        !.reasoning = <<"because">>]
  /\ chat_histories = Touch(<<>>, "s1")
  /\ graph = IF entry = "generate_response" THEN "ChatOpenAI" ELSE "None"
  /\ llm = "ChatOpenAI"
  /\ trace = <<"supervisor", "code_agent">>
  /\ mode = CodeAgentMode(req)
  /\ response_text = None
  /\ result = NoResult
  /\ payload = NoPayload
  /\ history_before = <<>>
  /\ cls = [type |-> "code", confidence |-> 90, reasoning |-> <<"because">>,
            raises |-> FALSE]
  /\ caught = 0
  /\ served = 1
  /\ session_documents = <<>>
  /\ doc_lists = <<>>
  /\ held = <<>>
  /\ call = NoCall
  /\ calls = 0
  /\ streams = <<>>
  /\ context = [NoContext EXCEPT !.classifier = <<>>, !.code_agent = <<>>]

NextParse ==
  \/ code_agent_try
  \/ ProcessRequestReturn
  \/ Respond

ParseSpec == InitParse /\ [][NextParse]_vars

(***************************************************************************)
(* Properties                                                              *)
(***************************************************************************)
\* sub occurs in s as a contiguous piece.
Occurs(sub, s) ==
  \E i \in 1..(Len(s) - Len(sub) + 1) : SubSeq(s, i, i + Len(sub) - 1) = sub

\* The request in progress has been answered by its entry point.
Answered == pc = "done"

\* The log of the request's session.
SessionLog == Messages(chat_histories, SessionOf(req))

\* C1: when the classifier's model invocation raises, the answer to the
\* request is category chat with confidence 0.5 and a reasoning that holds
\* the cause of the failure, and no exception reaches the caller.
C1_ClassifierFallback ==
  (cls.raises /\ pc \in {"returned", "done"}) =>
    /\ result.raised = <<>>
    /\ result.request_type = "chat"
    /\ result.confidence = FallbackConfidence
    /\ Occurs(cls.reasoning, result.reasoning)
    /\ Answered =>
         /\ payload.request_type = "chat"
         /\ payload.confidence = FallbackConfidence
         /\ Occurs(cls.reasoning, payload.reasoning)

C1_Witness ==
  /\ Answered
  /\ cls.raises
  /\ cls.reasoning = ClassifierDown
  /\ payload.request_type = "chat"
  /\ payload.reasoning = <<"Classification failed: ">> \o ClassifierDown

\* C2: process_request returns a response for every request and every
\* failure of a step of its processing; no exception leaves it.
C2_ProcessRequestNeverRaises == pc # "raised"

\* C3: an error that reaches the boundary of process_request is caught once,
\* one error turn (the prompt, then an assistant error message) is added to
\* the session's log, and the answer has category error and success false.
C3_BoundaryError ==
  (Answered /\ caught > 0) =>
    /\ caught = 1
    /\ Len(SessionLog) = Len(history_before) + 2
    /\ SubSeq(SessionLog, 1, Len(history_before)) = history_before
    /\ SessionLog[Len(history_before) + 1] = HumanMessage(req.prompt)
    /\ SessionLog[Len(history_before) + 2].role = "ai"
    /\ payload.request_type = "error"
    /\ payload.success = "false"

\* C4: a traversal of the graph visits the classifier first and once, then
\* exactly one agent once (the code agent iff the classification is code),
\* and ends; no node is visited twice and no agent precedes the classifier.
\* The traversal is that of a request whose graph was built (line 592).
GraphInvoked == llm # "None"

C5_IncrementalOnlyIfEnabled ==
  mode = "incremental" =>
    (req.enable_incremental_updates /\ NonBlank(req.currentCode))

(***************************************************************************)
(* Properties of the code agent's try block (ParseSpec)                    *)
(***************************************************************************)
\* The code agent has handled a reply of the model.
Replied == pc \in {"end", "returned", "done"} /\ response_text # None

\* The agent answered with its error message (handler of line 523).
AgentFailed == Len(state.response) > 0 /\ state.response[1] = CodeErrorPrefix[1]

DefaultFilename == OrElse(req.currentFilename, <<"index.html">>)
DefaultLanguage == OrElse(req.currentLanguage, <<"html">>)

\* The array that follows the marker, as text ("[" ... first "]"), if any.
OperationsText == operations_match(response_text)

\* The reply has the marker and a non-empty array after it that decodes and
\* whose elements are all operation objects with fields of the right type.
WellFormedOperations ==
  /\ OperationsText # <<>>
  /\ JsonDecodes(OperationsText)
  /\ Len(json_loads(OperationsText)) > 0
  /\ \A i \in 1..Len(json_loads(OperationsText)) :
       CoercionError(json_loads(OperationsText)[i]) = ""

\* The array is there, and decoding it or coercing one of its elements fails.
OperationsFail ==
  /\ OperationsText # <<>>
  /\ \/ ~JsonDecodes(OperationsText)
     \/ \E i \in 1..Len(json_loads(OperationsText)) :
          CoercionError(json_loads(OperationsText)[i]) # ""

ArrayStartsAt(t, i) ==
  /\ t[i] = INCREMENTAL_OPERATIONS
  /\ AfterSpace(t, i) <= Len(t)
  /\ t[AfterSpace(t, i)] = "["

MalformedArray ==
  /\ \E i \in 1..Len(response_text) : ArrayStartsAt(response_text, i)
  /\ OperationsText = <<>> \/ ~JsonDecodes(OperationsText)

Count(t, m) == Cardinality({i \in 1..Len(t) : t[i] = m})
Pos(t, m) == CHOOSE i \in 1..Len(t) : t[i] = m

IsFullForm(t) ==
  /\ t # None
  /\ \A m \in FullMarkers : Count(t, m) = 1
  /\ t[1] = EXPLANATION
  /\ Pos(t, CODE) < Pos(t, FILENAME)
  /\ Pos(t, FILENAME) < Pos(t, LANGUAGE)

FieldE(t) == SubSeq(t, 2, Pos(t, CODE) - 1)
FieldC(t) == SubSeq(t, Pos(t, CODE) + 1, Pos(t, FILENAME) - 1)
FieldF(t) == SubSeq(t, Pos(t, FILENAME) + 1, Pos(t, LANGUAGE) - 1)
FieldL(t) == SubSeq(t, Pos(t, LANGUAGE) + 1, Len(t))

\* s is t in lower case.
IsLowerOf(s, t) ==
  /\ Len(s) = Len(t)
  /\ \A i \in 1..Len(t) : s[i] # "A" /\ (s[i] = t[i] \/ (s[i] = "a" /\ t[i] = "A"))

FieldsParsed ==
  /\ state.response = Strip(FieldE(response_text))
  /\ state.generated_code = Strip(FieldC(response_text))
  /\ state.filename = Strip(FieldF(response_text))
  /\ IsLowerOf(state.language, Strip(FieldL(response_text)))

\* A field whose marker is missing keeps its default: without CODE: or
\* FILENAME: the filename and the language, without LANGUAGE: the language.
MissingMarkersKeepDefaults ==
  /\ (~Contains(response_text, CODE) \/ ~Contains(response_text, FILENAME)) =>
       (state.filename = DefaultFilename /\ state.language = DefaultLanguage)
  /\ ~Contains(response_text, LANGUAGE) => state.language = DefaultLanguage

TakenAsIncremental ==
  Contains(response_text, INCREMENTAL_OPERATIONS) /\ has_existing_code(req)

ParsedAsFull ==
  /\ Replied
  /\ trace = <<"supervisor", "code_agent">>
  /\ ~AgentFailed
  /\ state.incremental_update = NoUpdate

ChatAgentRan ==
  /\ pc \in {"end", "returned", "done"}
  /\ trace = <<"supervisor", "chat_agent">>

\* C12: when the chat agent's model invocation succeeds, the session's log
\* grows by exactly two entries, the user message and then the model's
\* reply as the assistant message, and the answer has category chat and the
\* reply as its prose response.
C12_ChatSuccess ==
  (ChatAgentRan /\ response_text # None) =>
    /\ SessionLog = history_before
                      \o <<HumanMessage(req.prompt), AIMessage(response_text)>>
    /\ Answered => (payload.request_type = "chat"
                      /\ payload.response = response_text)

C12_Witness ==
  /\ Answered
  /\ ChatAgentRan
  /\ response_text = ChatReply
  /\ Len(history_before) = 2
  /\ Len(SessionLog) = 4
  /\ SessionLog[3] = HumanMessage(<<"2">>)
  /\ payload.response = ChatReply

\* An agent called its model for the request in progress and the call
\* raised (the agent's own handler ran, not the one of process_request).
AgentModelRaised ==
  /\ pc \in {"end", "returned", "done"}
  /\ Len(trace) = 2
  /\ response_text = None
  /\ caught = 0

\* The error string the agent that ran makes of the failure.
AgentErrorMessage ==
  (IF trace[2] = "chat_agent" THEN ChatErrorPrefix ELSE CodeErrorPrefix)
    \o ModelDown

C14_AgentFailureUnsuccessful ==
  (Answered /\ AgentModelRaised) =>
    /\ payload.success = "false"
    /\ payload.request_type = state.request_type
    /\ payload.request_type \in {"chat", "code"}
    /\ payload.response = AgentErrorMessage

\* The code agent has finished its try block for the request in progress,
\* with a reply or with a failure.
CodeAgentDone ==
  /\ pc \in {"end", "returned", "done"}
  /\ trace = <<"supervisor", "code_agent">>
  /\ caught = 0

\* The assistant entry the code agent makes of its result: the explanation
\* and a note naming filename and language, or the error message.
SyntheticEntry ==
  IF AgentFailed THEN AIMessage(state.response)
  ELSE AIMessage(state.response \o GeneratedCodeNote \o state.filename
                   \o <<" (">> \o state.language \o <<")">>)

\* The agent added the request and the synthetic entry, and nothing else.
TurnLogged ==
  SessionLog = history_before \o <<HumanMessage(req.prompt), SyntheticEntry>>

\* The generated code stands in the text of a message of the session's log.
CodeInLog ==
  /\ state.generated_code # <<>>
  /\ \E i \in 1..Len(SessionLog) :
       Occurs(state.generated_code, SessionLog[i].content)

\* The reply itself repeats the generated code in what it gives as
\* explanation, filename or language.
ReplyRepeatsCode ==
  \/ Occurs(state.generated_code, state.response)
  \/ Occurs(state.generated_code, state.filename)
  \/ Occurs(state.generated_code, state.language)

Returned(op) == pc = "called" /\ call.op = op

\* C16: after clear(session_id) the message count of the session is 0;
\* clear returns true when the session existed; on a session that was never
\* created it returns false and creates nothing.
C16_ClearEmpties ==
  Returned("clear") =>
    /\ get_session_message_count(chat_histories, call.session_id) = 0
    /\ call.session_id \in call.sessions_before => call.returned = TRUE
    /\ call.session_id \notin call.sessions_before =>
         /\ call.returned = FALSE
         /\ DOMAIN chat_histories = call.sessions_before

\* C16: a session with messages has been cleared.
C16_Witness ==
  /\ Returned("clear")
  /\ call.messages_before # <<>>
  /\ call.returned = TRUE
  /\ chat_histories[call.session_id] = <<>>

\* C16, the other case: clear of a session nothing had created.
C16_NeverCreated ==
  /\ Returned("clear")
  /\ call.session_id \notin call.sessions_before
  /\ call.sessions_before # {}
  /\ call.returned = FALSE

\* The i-th and the j-th result of a lookup are of one session and one kind.
SameLookup(i, j) ==
  /\ held[i].kind = held[j].kind
  /\ held[i].session_id = held[j].session_id

\* What is stored for the session of a held result, as seen through it.
SeenThrough(r) ==
  IF r.kind = "log" THEN Messages(chat_histories, r.ref) ELSE doc_lists[r.ref]

\* What the store holds for the session of a held result.
StoredFor(r) ==
  IF r.kind = "log" THEN Messages(chat_histories, r.session_id)
  ELSE IF r.session_id \in DOMAIN session_documents
       THEN doc_lists[session_documents[r.session_id]]
       ELSE <<>>

\* C17: two lookups of one session return the same log and the same
\* document list, so what is added through one result is seen through the
\* other, also when the first lookup came before anything was stored.
C17_SharedLookup ==
  \A i, j \in 1..Len(held) :
    SameLookup(i, j) =>
      /\ held[i].ref = held[j].ref
      /\ SeenThrough(held[i]) = SeenThrough(held[j])

\* C17 for the message logs alone.
C17_SharedLog ==
  \A i, j \in 1..Len(held) :
    (SameLookup(i, j) /\ held[i].kind = "log") =>
      /\ held[i].ref = held[j].ref
      /\ SeenThrough(held[i]) = StoredFor(held[j])

\* s is a prefix of t
IsPrefix(s, t) == Len(s) <= Len(t) /\ SubSeq(t, 1, Len(s)) = s

\* The step is a clear of session s that leaves its log empty.
ClearedAll(s) ==
  /\ pc' = "called"
  /\ call'.op = "clear"
  /\ call'.session_id = s
  /\ chat_histories'[s] = <<>>

\* C18: in every step a log stays and the log before the step is a prefix
\* of the log after it, unless the step is a clear of that session, which
\* removes all its messages.
C18_AppendOnly ==
  [][\A s \in DOMAIN chat_histories :
       /\ s \in DOMAIN chat_histories'
       /\ IsPrefix(chat_histories[s], chat_histories'[s]) \/ ClearedAll(s)]_vars

\* C18: a request has been answered in a session that had messages after
\* an upload, a summary, a count or a listing, and the earlier messages are
\* the start of the log.
C18_Witness ==
  /\ pc = "done"
  /\ calls > 0
  /\ history_before # <<>>
  /\ Len(Messages(chat_histories, state.session_id)) > Len(history_before)
  /\ IsPrefix(history_before, Messages(chat_histories, state.session_id))


(***************************************************************************)
(* Properties of create_rag_context                                        *)
(***************************************************************************)
\* create_rag_context has returned; its arguments.
ContextBuilt == pc = "called" /\ call.op = "create_rag_context"
documents_given == call.args.documents
max_length_given == call.args.max_length

\* s ends with t
EndsWith(s, t) ==
  Len(t) <= Len(s) /\ SubSeq(s, Len(s) - Len(t) + 1, Len(s)) = t

\* C19: for a single document whose content is longer than max_length the
\* context returned is at most max_length long and ends with the truncation
\* marker, whatever max_length is.
C19_TruncatedWithinBudget ==
  (/\ ContextBuilt
   /\ Len(documents_given) = 1
   /\ Len(documents_given[1].page_content) > max_length_given) =>
    /\ Len(call.returned) <= max_length_given
    /\ EndsWith(call.returned, TruncationMarker)

\* C19, the bound alone.
C19_WithinBudget ==
  (/\ ContextBuilt
   /\ Len(documents_given) = 1
   /\ Len(documents_given[1].page_content) > max_length_given) =>
    Len(call.returned) <= max_length_given

\* '[Document: <name>]\n<content>' for the i-th document
NamedBlock(doc, i, content) ==
  <<"[", "D", "o", "c", "u", "m", "e", "n", "t", ":", " ">>
    \o SourceFile(doc, i) \o <<"]", "\n">> \o content

\* The blocks of the claim and the blocks of the code: the latter start
\* with a newline and hold the content without the white space around it.
PlainBlocks(docs) ==
  [i \in 1..Len(docs) |-> NamedBlock(docs[i], i, docs[i].page_content)]
StrippedBlocks(docs) ==
  [i \in 1..Len(docs) |->
     <<"\n">> \o NamedBlock(docs[i], i, Strip(docs[i].page_content))]

RECURSIVE TotalLength(_)
TotalLength(blocks) ==
  IF blocks = <<>> THEN 0 ELSE Len(Head(blocks)) + TotalLength(Tail(blocks))

RECURSIVE Concatenation(_)
Concatenation(blocks) ==
  IF blocks = <<>> THEN <<>> ELSE Head(blocks) \o Concatenation(Tail(blocks))

\* The blocks one after the other with a newline between two of them.
RECURSIVE NewlineSeparated(_)
NewlineSeparated(blocks) ==
  IF blocks = <<>> THEN <<>>
  ELSE IF Len(blocks) = 1 THEN Head(blocks)
  ELSE Head(blocks) \o <<"\n">> \o NewlineSeparated(Tail(blocks))

\* C20 as stated: documents whose blocks '[Document: <name>]\n<content>'
\* jointly fit within max_length give the concatenation of these blocks in
\* the order of the documents.
C20_AllBlocksOriginal ==
  (/\ ContextBuilt
   /\ TotalLength(PlainBlocks(documents_given)) <= max_length_given) =>
    call.returned = Concatenation(PlainBlocks(documents_given))

\* C20: documents whose blocks '\n[Document: <name>]\n<stripped content>'
\* have lengths that sum to at most max_length give all these blocks, whole
\* and in the order of the documents, with a newline between two of them.
C20_AllBlocks ==
  (/\ ContextBuilt
   /\ TotalLength(StrippedBlocks(documents_given)) <= max_length_given) =>
    call.returned = NewlineSeparated(StrippedBlocks(documents_given))

\* C20: two documents whose blocks fill the budget exactly were given.
C20_Witness ==
  /\ ContextBuilt
  /\ Len(documents_given) = 2
  /\ documents_given[1] # documents_given[2]
  /\ TotalLength(StrippedBlocks(documents_given)) = max_length_given
  /\ call.returned = NewlineSeparated(StrippedBlocks(documents_given))

\* The header of the first document given.
FirstHeader == <<"\n">> \o NamedBlock(documents_given[1], 1, <<>>)

\* C21: the context is not empty when there is a document and max_length
\* exceeds the length of the header of the first one, also when the first
\* block alone exceeds max_length.
C21_NonEmptyContext ==
  (/\ ContextBuilt
   /\ documents_given # <<>>
   /\ max_length_given > Len(FirstHeader)) =>
    call.returned # <<>>

(***************************************************************************)
(* Properties of the upload of documents                                   *)
(***************************************************************************)
\* The allow-list of the claim, and the file names whose extension, in
\* lower case, is none of its members.
AllowList ==
  {<<".", "p", "d", "f">>, <<".", "d", "o", "c", "x">>, <<".", "d", "o", "c">>,
   <<".", "x", "l", "s", "x">>, <<".", "x", "l", "s">>}
OutsideAllowList(filename) ==
  \A ext \in AllowList :
    ~(Len(filename) > Len(ext) /\ EndsWith(Lower(filename), ext))

\* What a parse failure gives: the error of process_uploaded_file and the
\* answer of the endpoint.
ParseFailures ==
  {process_uploaded_file(f, None) : f \in {g \in Files : ~OutsideAllowList(g)}}
ParseFailureAnswers ==
  {[status |-> 400, detail |-> e.message] : e \in ParseFailures}

\* C22: a file whose extension is outside the allow-list makes
\* process_uploaded_file fail with the unsupported-format error and the
\* upload fail, neither of them as a parse failure does, and the step
\* leaves the documents of every session as they were.
C22_UnsupportedFormatRejected ==
  [][(/\ pc' = "called"
      /\ call'.op \in {"upload", "process_uploaded_file"}
      /\ OutsideAllowList(call'.args)) =>
       /\ session_documents' = session_documents
       /\ doc_lists' = doc_lists
       /\ call'.op = "process_uploaded_file" =>
            /\ call'.returned.raised = "ValueError"
            /\ call'.returned.message =
                 <<"Unsupported file format: ">> \o call'.args
            /\ call'.returned \notin ParseFailures
       /\ call'.op = "upload" =>
            /\ call'.returned.status # 200
            /\ call'.returned \notin ParseFailureAnswers]_vars

\* C22: a file outside the allow-list was uploaded to a session that holds
\* documents, and was refused.
C22_Witness ==
  /\ Returned("upload")
  /\ call.args = <<"a", ".", "t", "x", "t">>
  /\ call.returned.status # 200
  /\ get_session_document_count(session_documents, doc_lists,
                                call.session_id) > 0

\* C23: the upload of a file with an unrecognized extension is answered
\* with status 400, never with a 5xx status.
C23_UnsupportedIsClientError ==
  (Returned("upload") /\ OutsideAllowList(call.args)) =>
    call.returned.status = 400

(***************************************************************************)
(* Properties of requests that overlap                                     *)
(***************************************************************************)
\* The arrival number a user message spells, 0 when it spells none.
ArrivalOf(m) ==
  LET ns == {n \in 1..(served + Len(streams)) : m.content = <<ToString(n)>>}
  IN  IF ns = {} THEN 0 ELSE CHOOSE n \in ns : TRUE

\* The positions of the user messages of a log.
UserEntries(log) == {a \in 1..Len(log) : log[a].role = "human"}

\* The user messages of every log stand in the order of arrival.
InArrivalOrder ==
  \A s \in DOMAIN chat_histories :
    \A a, b \in UserEntries(chat_histories[s]) :
      a < b => ArrivalOf(chat_histories[s][a]) < ArrivalOf(chat_histories[s][b])

\* Every user message of every log is followed at once by an assistant
\* message.
TurnsUnbroken ==
  \A s \in DOMAIN chat_histories :
    \A a \in UserEntries(chat_histories[s]) :
      /\ a < Len(chat_histories[s])
      /\ chat_histories[s][a + 1].role = "ai"

\* C24: the user messages of the requests of one session stand in the log
\* in the order the requests arrived, however long the model of each takes,
\* and no entry stands between the user message and the assistant message
\* of a request.
C24_ArrivalOrderKept ==
  InArrivalOrder /\ TurnsUnbroken

(***************************************************************************)
(* Properties of the history a node hands to its model                     *)
(***************************************************************************)
\* w is the last min(n, 30) messages of a log of n messages, in the order
\* of the log and each as it stands there.
IsRecencyWindow(w, log) ==
  LET n == Len(log)
      k == IF n < 30 THEN n ELSE 30
  IN  /\ Len(w) = k
      /\ \A i \in 1..k : w[i] = log[n - k + i]

\* The histories the nodes of the request in progress have built.
ContextsBuilt == {context[node] : node \in DOMAIN context} \ {None}

\* C25: the history the classifier, the chat agent and the code agent are
\* given is the last min(n, 30) messages of the log of n messages the
\* request found, in log order and with full content, and the log still
\* begins with these n messages.
C25_RecencyWindow ==
  (pc # "idle" /\ req # NoRequest) =>
    /\ \A w \in ContextsBuilt : IsRecencyWindow(w, history_before)
    /\ IsPrefix(history_before, Messages(chat_histories, SessionOf(req)))

\* C25: a request to a session with more than 30 messages went through the
\* classifier and an agent, which got the last 30.
C25_Witness ==
  /\ pc = "done"
  /\ Len(history_before) > 30
  /\ context.classifier # None
  /\ context.chat_agent # None
  /\ Len(context.chat_agent) = 30
  /\ context.chat_agent[1] = history_before[Len(history_before) - 29]
  /\ context.chat_agent[30] = history_before[Len(history_before)]

(***************************************************************************)
(* Properties of the sessions as a whole                                   *)
(***************************************************************************)
\* The documents the store holds for a session.
DocumentSet(docs, lists, s) ==
  IF s \in DOMAIN docs THEN lists[docs[s]] ELSE <<>>

\* Every session the program may know.
AllSessions == SessionIds \cup {NoSession, "s2"}

\* The session the step is addressed to: that of the call of the memory
\* service it makes, or that of the request it works on.
Addressed(c, r) ==
  IF c.op # "none" THEN c.session_id
  ELSE IF r # NoRequest THEN SessionOf(r)
  ELSE NoSession

\* C26: a step of an operation addressed to a session leaves the message
\* log and the document set of every other session as they were.
C26_SessionsIsolated ==
  [][\A b \in AllSessions \ {Addressed(call', req')} :
       /\ (b \in DOMAIN chat_histories) = (b \in DOMAIN chat_histories')
       /\ Messages(chat_histories', b) = Messages(chat_histories, b)
       /\ (b \in DOMAIN session_documents) = (b \in DOMAIN session_documents')
       /\ DocumentSet(session_documents', doc_lists', b)
            = DocumentSet(session_documents, doc_lists, b)]_vars

\* C26: documents were added to a session while another session holds
\* documents and messages of its own.
C26_Witness ==
  /\ Returned("upload")
  /\ call.returned.status = 200
  /\ \E b \in SessionIds \ {call.session_id} :
       /\ DocumentSet(session_documents, doc_lists, b) # <<>>
       /\ DocumentSet(session_documents, doc_lists, b)
            # DocumentSet(session_documents, doc_lists, call.session_id)

\* The roles of a log alternate, user first, and its length is even.
TurnsAlternate(log) ==
  /\ Len(log) % 2 = 0
  /\ \A i \in 1..Len(log) :
       log[i].role = (IF i % 2 = 1 THEN "human" ELSE "ai")

\* The request in progress has added one turn to the log it found: its
\* prompt as user message and then one assistant message.
OneTurnAdded ==
  /\ Len(SessionLog) = Len(history_before) + 2
  /\ IsPrefix(history_before, SessionLog)
  /\ SessionLog[Len(history_before) + 1] = HumanMessage(req.prompt)
  /\ SessionLog[Len(history_before) + 2].role = "ai"

\* C27: a routed request that is answered has added exactly one turn to
\* the log of its session, on every path, and between requests every log
\* has even length and alternating roles.
C27_OneTurnPerRequest ==
  /\ Answered => OneTurnAdded
  /\ pc \in {"idle", "done"} =>
       \A s \in DOMAIN chat_histories : TurnsAlternate(chat_histories[s])

\* C27 for the requests whose graph could be built.
C27_OneTurnWhenBuilt ==
  (Answered /\ llm # "None") => OneTurnAdded

\* C27, the shape of the logs alone.
C27_LogsAlternate ==
  pc \in {"idle", "done"} =>
    \A s \in DOMAIN chat_histories : TurnsAlternate(chat_histories[s])

\* The number of documents the store holds for a session.
DocumentCount(s) == Len(DocumentSet(session_documents, doc_lists, s))

\* C28: the document_count of the summary of a session is its document
\* count, and a session that holds documents is reported as existing and is
\* among the sessions listed, also when its log was never made.
C28_SummaryCountsDocuments ==
  /\ Returned("summary") =>
       /\ call.returned.document_count = DocumentCount(call.session_id)
       /\ DocumentCount(call.session_id) > 0 => call.returned.exists
  /\ Returned("list") =>
       \A s \in SessionIds : DocumentCount(s) > 0 => s \in call.returned

\* C28 for the sessions that have a message log.
C28_SummaryOfLoggedSession ==
  (Returned("summary") /\ call.session_id \in DOMAIN chat_histories) =>
    /\ call.returned.document_count = DocumentCount(call.session_id)
    /\ call.returned.exists

(***************************************************************************)
(* Properties of the choice of the model backend                           *)
(***************************************************************************)
\* The backend the provider and the credentials of a config name, "None"
\* when the config names none.
SelectedBackend(c) ==
  IF c.aiProvider = "openai" /\ c.openaiApiKey THEN "ChatOpenAI"
  ELSE IF c.aiProvider = "anthropic" /\ c.anthropicApiKey THEN "ChatAnthropic"
  ELSE IF c.aiProvider = "azure_openai" /\ c.azureOpenAIConfig
       THEN "AzureChatOpenAI"
  ELSE "None"

\* C29: the request in progress is classified and answered by the backend
\* its own config selects, whatever earlier requests selected.
C29_OwnBackend ==
  (req # NoRequest /\ trace # <<>>) => llm = SelectedBackend(req.config)

\* C29 for the requests sent to a Supervisor of their own.
C29_OwnBackendFreshSupervisor ==
  (req # NoRequest /\ trace # <<>> /\ entry = "supervisor_routing") =>
    llm = SelectedBackend(req.config)

\* The context is made of the blocks of the first k documents and of no
\* other, for some k, or of the cut first document alone.
IncludesPrefix ==
  \/ \E k \in 0..Len(documents_given) :
       call.returned =
         NewlineSeparated(StrippedBlocks(SubSeq(documents_given, 1, k)))
  \/ /\ documents_given # <<>>
     /\ EndsWith(call.returned, TruncationMarker)
     /\ IsPrefix(FirstHeader, call.returned)
     /\ IsPrefix(SubSeq(call.returned, 1, Len(call.returned) - Len(TruncationMarker)),
                 StrippedBlocks(documents_given)[1])

\* C30: the context is at most max_length long, the separators between the
\* blocks counted, and the documents in it are a prefix of those given.
C30_BoundedPrefix ==
  ContextBuilt =>
    /\ Len(call.returned) <= max_length_given
    /\ IncludesPrefix

\* C30, the prefix alone.
C30_PrefixOnly == ContextBuilt => IncludesPrefix

\* C30, the bound without the separators between the blocks.
C30_BoundedBlocks ==
  ContextBuilt =>
    Len(call.returned) <= max_length_given
                            + (IF Len(documents_given) > 1
                               THEN Len(documents_given) - 1 ELSE 0)

====
